---- MODULE Spec2Model ----
(***************************************************************************)
(* Model of general/toaster/toastDrv/kmdf/toastmon/wmi.c: registration for *)
(* the toaster device-arrival WMI notification, the notification callback  *)
(* that scans the target device collection under its wait lock, and the    *)
(* friendly-name lookup with its device-description fallback.              *)
(***************************************************************************)
EXTENDS Integers, Sequences, FiniteSets, TLC

\* ------------------------------------------------------------------ bounds
MaxTargets == 2        \* longest target device collection
MaxShared == 1         \* longest collection when the registrar runs beside the callback
MaxChannels == 2       \* WMI data blocks IoWMIOpenBlock can hand out in one run
NumDispatchers == 2    \* threads on which WMI may run the callback
NumWriters == 1        \* threads that add, remove or change targets

\* ------------------------------------------------------------- value sets
NULL == 0

Dispatchers == 1 .. NumDispatchers
Writers == (NumDispatchers + 1) .. (NumDispatchers + NumWriters)
Channels == 1 .. MaxChannels

\* WDF_IO_TARGET_STATE as the specification names the lifecycle states.
TargetStates == {"Created", "Started", "Stopped", "Removed"}
WdfIoTargetStarted == "Started"

\* Provider ids; NoDevObj stands for a NULL PDEVICE_OBJECT.
NoDevObj == 0
ProviderIds == {1, 2}

\* WnodeHeader.Guid values: the arrival GUID and some other GUID.
TOASTER_NOTIFY_DEVICE_ARRIVAL_EVENT == "ARRIVAL"
Guids == {TOASTER_NOTIFY_DEVICE_ARRIVAL_EVENT, "OTHER"}

STATUS_SUCCESS == "STATUS_SUCCESS"
STATUS_INSUFFICIENT_RESOURCES == "STATUS_INSUFFICIENT_RESOURCES"
STATUS_OBJECT_NAME_NOT_FOUND == "STATUS_OBJECT_NAME_NOT_FOUND"
STATUS_UNSUCCESSFUL == "STATUS_UNSUCCESSFUL"
FailureStatuses ==
    {STATUS_INSUFFICIENT_RESOURCES, STATUS_OBJECT_NAME_NOT_FOUND, STATUS_UNSUCCESSFUL}
Statuses == {STATUS_SUCCESS} \cup FailureStatuses
\* Outcomes the property query is given in the model.
QueryStatuses == Statuses
\* Outcomes IoWMIOpenBlock and IoWMISetNotificationCallback are given.
WmiStatuses == {STATUS_SUCCESS, STATUS_INSUFFICIENT_RESOURCES, STATUS_UNSUCCESSFUL}

NT_SUCCESS(status) == status = STATUS_SUCCESS

DevicePropertyFriendlyName == "FriendlyName"
DevicePropertyDeviceDescription == "DeviceDescription"

\* One recorded step of a routine: the operation, the collection index or
\* object it is applied to (-1 when there is none) and a status or kind.
\* A KdPrint step is the call that hands a message to the debug output; when
\* the message prints a status, a "%x" step with that status follows it.
Op(o, n, s) == [op |-> o, n |-> n, s |-> s]

VARIABLES
    DBG,                                  \* checked build: ASSERT is compiled in
    WMIDeviceArrivalNotificationObject,   \* DeviceExt field: NULL or a channel
    nextObject,                           \* data blocks opened so far
    derefs,                               \* ObDereferenceObject calls per block
    callbackOn,                           \* blocks with the callback installed
    assertFailed,                         \* ASSERT fired (execution stopped)
    misused,                              \* register was entered with the slot occupied
    lastCall,                             \* last registrar routine that ran
    entrySlot,                            \* the slot when that routine was entered
    regStatus,                            \* status returned by the last register
    regTrace,                             \* steps of the last registrar routine
    TargetDeviceCollection,               \* the WDFCOLLECTION of I/O targets
    lockOwner,                            \* holder of TargetDeviceCollectionLock
    badRelease,                           \* the lock was released by a non-holder
    writer,                               \* per writer: "idle" or "holding" the lock
    pc, i, wnode, trace                   \* per callback invocation

regVars == <<WMIDeviceArrivalNotificationObject, nextObject, derefs, callbackOn,
             assertFailed, misused, lastCall, entrySlot, regStatus, regTrace>>
colVars == <<TargetDeviceCollection, writer>>
lockVars == <<lockOwner, badRelease>>
cbVars == <<pc, i, wnode, trace>>
vars == <<DBG, regVars, colVars, lockVars, cbVars>>

\* ------------------------------------------------- notification registrar
\* ASSERT compiled to nothing on every build.
AssertCompiledOut(dbg, exp) == FALSE

\* ASSERT(exp): compiled in on a checked build (DBG), to nothing on a free one.
\* TRUE when the assertion fires.
AssertFires(dbg, exp) == dbg /\ ~exp

\* IoWMIOpenBlock: on success the out parameter receives a new data block
\* object, on failure it is left as it was.
IoWMIOpenBlock(slot, next, st) == IF NT_SUCCESS(st) THEN next + 1 ELSE slot

\* RegisterBody without line 78: the slot keeps the dereferenced object.
RegisterBodyKeepsSlot(slot, next, openSt, cbSt) ==
    LET obj == IoWMIOpenBlock(slot, next, openSt) IN
    IF ~NT_SUCCESS(openSt) THEN
        [slot |-> NULL, status |-> openSt, opened |-> NULL,
         released |-> <<>>, installed |-> {},
         steps |-> <<Op("IoWMIOpenBlock", -1, openSt),
                     Op("KdPrint", -1, "Unable to open wmi data block"),
                     Op("%x", -1, openSt)>>]
    ELSE IF ~NT_SUCCESS(cbSt) THEN
        [slot |-> obj, status |-> cbSt, opened |-> obj,
         released |-> <<obj>>, installed |-> {},
         steps |-> <<Op("IoWMIOpenBlock", obj, openSt),
                     Op("IoWMISetNotificationCallback", obj, cbSt),
                     Op("KdPrint", -1, "Unable to register for wmi notification"),
                     Op("%x", -1, cbSt),
                     Op("ObDereferenceObject", obj, "")>>]
    ELSE
        [slot |-> obj, status |-> cbSt, opened |-> obj,
         released |-> <<>>, installed |-> {obj},
         steps |-> <<Op("IoWMIOpenBlock", obj, openSt),
                     Op("IoWMISetNotificationCallback", obj, cbSt)>>]

\* RegisterBody without the ObDereferenceObject of line 77.
RegisterBodyLeak(slot, next, openSt, cbSt) ==
    LET obj == IoWMIOpenBlock(slot, next, openSt) IN
    IF ~NT_SUCCESS(openSt) THEN
        [slot |-> NULL, status |-> openSt, opened |-> NULL,
         released |-> <<>>, installed |-> {},
         steps |-> <<Op("IoWMIOpenBlock", -1, openSt),
                     Op("KdPrint", -1, "Unable to open wmi data block"),
                     Op("%x", -1, openSt)>>]
    ELSE IF ~NT_SUCCESS(cbSt) THEN
        [slot |-> NULL, status |-> cbSt, opened |-> obj,
         released |-> <<>>, installed |-> {},
         steps |-> <<Op("IoWMIOpenBlock", obj, openSt),
                     Op("IoWMISetNotificationCallback", obj, cbSt),
                     Op("KdPrint", -1, "Unable to register for wmi notification"),
                     Op("%x", -1, cbSt)>>]
    ELSE
        [slot |-> obj, status |-> cbSt, opened |-> obj,
         released |-> <<>>, installed |-> {obj},
         steps |-> <<Op("IoWMIOpenBlock", obj, openSt),
                     Op("IoWMISetNotificationCallback", obj, cbSt)>>]

\* Lines 58-82 of RegisterForWMINotification, after the ASSERT: the value left
\* in the slot, the status returned, the object opened (NULL when none), the
\* objects dereferenced, the objects the callback was installed on, the steps.
RegisterBody(slot, next, openSt, cbSt) ==
    LET obj == IoWMIOpenBlock(slot, next, openSt) IN
    IF ~NT_SUCCESS(openSt) THEN
        [slot |-> NULL, status |-> openSt, opened |-> NULL,
         released |-> <<>>, installed |-> {},
         steps |-> <<Op("IoWMIOpenBlock", -1, openSt),
                     Op("KdPrint", -1, "Unable to open wmi data block"),
                     Op("%x", -1, openSt)>>]
    ELSE IF ~NT_SUCCESS(cbSt) THEN
        [slot |-> NULL, status |-> cbSt, opened |-> obj,
         released |-> <<obj>>, installed |-> {},
         steps |-> <<Op("IoWMIOpenBlock", obj, openSt),
                     Op("IoWMISetNotificationCallback", obj, cbSt),
                     Op("KdPrint", -1, "Unable to register for wmi notification"),
                     Op("%x", -1, cbSt),
                     Op("ObDereferenceObject", obj, "")>>]
    ELSE
        [slot |-> obj, status |-> cbSt, opened |-> obj,
         released |-> <<>>, installed |-> {obj},
         steps |-> <<Op("IoWMIOpenBlock", obj, openSt),
                     Op("IoWMISetNotificationCallback", obj, cbSt)>>]

\* ObDereferenceObject on each object of a sequence.
RECURSIVE Dereference(_, _)
Dereference(d, objs) ==
    IF objs = <<>> THEN d
    ELSE Dereference([d EXCEPT ![Head(objs)] = @ + 1], Tail(objs))

RegisterForWMINotification ==
    /\ ~assertFailed
    /\ lastCall' = "register"
    /\ entrySlot' = WMIDeviceArrivalNotificationObject
    /\ misused' = (misused \/ WMIDeviceArrivalNotificationObject # NULL)
    /\ IF AssertFires(DBG, WMIDeviceArrivalNotificationObject = NULL)
       THEN /\ assertFailed' = TRUE
            /\ regStatus' = "none"
            /\ regTrace' = <<Op("ASSERT", -1, "failed")>>
            /\ UNCHANGED <<WMIDeviceArrivalNotificationObject, nextObject, derefs,
                           callbackOn>>
       ELSE \E openSt \in WmiStatuses, cbSt \in WmiStatuses :
            /\ NT_SUCCESS(openSt) => nextObject < MaxChannels
            /\ LET r == RegisterBody(WMIDeviceArrivalNotificationObject,
                                     nextObject, openSt, cbSt) IN
               /\ WMIDeviceArrivalNotificationObject' = r.slot
               /\ nextObject' = IF r.opened # NULL THEN r.opened ELSE nextObject
               /\ derefs' = Dereference(derefs, r.released)
               /\ callbackOn' = callbackOn \cup r.installed
               /\ regStatus' = r.status
               /\ regTrace' = r.steps
            /\ UNCHANGED assertFailed
    /\ UNCHANGED <<DBG, colVars, lockVars, cbVars>>

\* UnregisterBody without line 95: the slot keeps the released object.
UnregisterBodyKeepsSlot(slot) ==
    IF slot # NULL
    THEN [slot |-> slot, released |-> <<slot>>,
          steps |-> <<Op("ObDereferenceObject", slot, "")>>]
    ELSE [slot |-> slot, released |-> <<>>, steps |-> <<>>]

\* UnregisterBody without line 94: the slot is cleared, the object kept.
UnregisterBodyNoRelease(slot) ==
    [slot |-> NULL, released |-> <<>>, steps |-> <<>>]

\* Lines 93-96 of UnregisterForWMINotification: the value left in the slot,
\* the objects dereferenced and the steps.
UnregisterBody(slot) ==
    IF slot # NULL
    THEN [slot |-> NULL, released |-> <<slot>>,
          steps |-> <<Op("ObDereferenceObject", slot, "")>>]
    ELSE [slot |-> slot, released |-> <<>>, steps |-> <<>>]

UnregisterForWMINotification ==
    /\ ~assertFailed
    /\ lastCall' = "unregister"
    /\ entrySlot' = WMIDeviceArrivalNotificationObject
    /\ LET r == UnregisterBody(WMIDeviceArrivalNotificationObject) IN
       /\ WMIDeviceArrivalNotificationObject' = r.slot
       /\ derefs' = Dereference(derefs, r.released)
       /\ regTrace' = r.steps
    /\ regStatus' = "VOID"
    /\ UNCHANGED <<DBG, nextObject, callbackOn, assertFailed, misused, colVars,
                   lockVars, cbVars>>

\* A data block is open from IoWMIOpenBlock until its reference is dropped.
IsOpen(c) == c \in 1 .. nextObject /\ derefs[c] = 0

\* ------------------------------------------------------ name resolution
\* WdfIoTargetAllocAndQueryTargetProperty: the status the query is given and,
\* on success, the WDFMEMORY it allocates (named by target and property).
QueryTargetProperty(Target, property, st) ==
    [status |-> st,
     memory |-> IF NT_SUCCESS(st) THEN <<Target, property>> ELSE <<>>,
     steps |-> <<Op("WdfIoTargetAllocAndQueryTargetProperty", Target, property),
                 Op("QueryReturned", Target, st)>> \o
               (IF NT_SUCCESS(st) THEN <<Op("*TargetName", Target, property)>> ELSE <<>>)]

\* FallsBack without the STATUS_INSUFFICIENT_RESOURCES exception.
FallsBackOnAnyFailure(status) == ~NT_SUCCESS(status)

\* The test of line 133 that decides whether the device description is tried.
FallsBack(status) == ~NT_SUCCESS(status) /\ status # STATUS_INSUFFICIENT_RESOURCES

\* GetTargetFriendlyName without the KdPrint of lines 142-144.
GetTargetFriendlyNameNoLog(Target, fnSt, ddSt) ==
    LET q1 == QueryTargetProperty(Target, DevicePropertyFriendlyName, fnSt)
        q2 == QueryTargetProperty(Target, DevicePropertyDeviceDescription, ddSt)
        r == IF FallsBack(q1.status)
             THEN [status |-> q2.status, memory |-> q2.memory,
                   steps |-> q1.steps \o q2.steps]
             ELSE q1
    IN [status |-> r.status,
        memory |-> r.memory,
        steps |-> <<Op("GetTargetFriendlyName", Target, "")>> \o r.steps \o
                  <<Op("return", Target, r.status)>>]

\* GetTargetFriendlyName (lines 127-146) when the friendly-name query is given
\* fnSt and the device-description query, if made, ddSt.
GetTargetFriendlyName(Target, fnSt, ddSt) ==
    LET q1 == QueryTargetProperty(Target, DevicePropertyFriendlyName, fnSt)
        q2 == QueryTargetProperty(Target, DevicePropertyDeviceDescription, ddSt)
        r == IF FallsBack(q1.status)
             THEN [status |-> q2.status, memory |-> q2.memory,
                   steps |-> q1.steps \o q2.steps]
             ELSE q1
    IN [status |-> r.status,
        memory |-> r.memory,
        steps |-> <<Op("GetTargetFriendlyName", Target, "")>> \o r.steps \o
                  (IF ~NT_SUCCESS(r.status)
                   THEN <<Op("KdPrint", Target, "WdfDeviceQueryProperty returned"),
                          Op("%x", Target, r.status)>>
                   ELSE <<>>) \o
                  <<Op("return", Target, r.status)>>]

\* ------------------------------------------------- notification callback
\* WnodeHeader of the event: ProviderId and Guid.
Wnodes == [ProviderId : ProviderIds, Guid : Guids]
NoWnode == [ProviderId |-> NoDevObj, Guid |-> "NONE"]

\* An I/O target of the collection: its handle, state and the provider id of
\* its device object (NoDevObj when it has no device object).
Targets(handles) == [h : handles, state : TargetStates, prov : {NoDevObj} \cup ProviderIds]

\* What the scan does after the body of one iteration.
Continue == "continue"
Break == "break"

\* ArrivalBranch without the break of line 217: a failed resolution goes on
\* to the next target.
ArrivalBranchContinueOnFailure(ioTarget, fnSt, ddSt) ==
    LET r == GetTargetFriendlyName(ioTarget, fnSt, ddSt) IN
    IF ~NT_SUCCESS(r.status)
    THEN [next |-> Continue,
          steps |-> r.steps \o
                    <<Op("KdPrint", ioTarget, "GetDeviceFriendlyName returned"),
                      Op("%x", ioTarget, r.status)>>]
    ELSE [next |-> Break,
          steps |-> r.steps \o
                    <<Op("WdfMemoryGetBuffer", r.memory[1], r.memory[2]),
                      Op("KdPrint fired a device arrival event", r.memory[1], r.memory[2]),
                      Op("WdfObjectDelete", r.memory[1], r.memory[2])>>]

\* ArrivalBranch without the WdfObjectDelete of line 226.
ArrivalBranchNoDelete(ioTarget, fnSt, ddSt) ==
    LET r == GetTargetFriendlyName(ioTarget, fnSt, ddSt) IN
    IF ~NT_SUCCESS(r.status)
    THEN [next |-> Break,
          steps |-> r.steps \o
                    <<Op("KdPrint", ioTarget, "GetDeviceFriendlyName returned"),
                      Op("%x", ioTarget, r.status)>>]
    ELSE [next |-> Break,
          steps |-> r.steps \o
                    <<Op("WdfMemoryGetBuffer", r.memory[1], r.memory[2]),
                      Op("KdPrint fired a device arrival event", r.memory[1], r.memory[2])>>]

\* ArrivalBranch without the break of line 228.
ArrivalBranchNoBreak(ioTarget, fnSt, ddSt) ==
    LET r == GetTargetFriendlyName(ioTarget, fnSt, ddSt) IN
    IF ~NT_SUCCESS(r.status)
    THEN [next |-> Break,
          steps |-> r.steps \o
                    <<Op("KdPrint", ioTarget, "GetDeviceFriendlyName returned"),
                      Op("%x", ioTarget, r.status)>>]
    ELSE [next |-> Continue,
          steps |-> r.steps \o
                    <<Op("WdfMemoryGetBuffer", r.memory[1], r.memory[2]),
                      Op("KdPrint fired a device arrival event", r.memory[1], r.memory[2]),
                      Op("WdfObjectDelete", r.memory[1], r.memory[2])>>]

\* Lines 214-228: the arrival branch for the matching target.
ArrivalBranch(ioTarget, fnSt, ddSt) ==
    LET r == GetTargetFriendlyName(ioTarget, fnSt, ddSt) IN
    IF ~NT_SUCCESS(r.status)
    THEN [next |-> Break,
          steps |-> r.steps \o
                    <<Op("KdPrint", ioTarget, "GetDeviceFriendlyName returned"),
                      Op("%x", ioTarget, r.status)>>]
    ELSE [next |-> Break,
          steps |-> r.steps \o
                    <<Op("WdfMemoryGetBuffer", r.memory[1], r.memory[2]),
                      Op("KdPrint fired a device arrival event", r.memory[1], r.memory[2]),
                      Op("WdfObjectDelete", r.memory[1], r.memory[2])>>]

\* UnknownBranch with a break after the KdPrint of line 231.
UnknownBranchBreak(ioTarget) ==
    [next |-> Break, steps |-> <<Op("KdPrint", ioTarget, "Unknown event")>>]

\* Line 231: the provider matches, the event class does not.
UnknownBranch(ioTarget) ==
    [next |-> Continue, steps |-> <<Op("KdPrint", ioTarget, "Unknown event")>>]

\* MatchTarget without the IsEqualGUID test of lines 208-209: any event of
\* the target's provider takes the arrival branch.
MatchTargetNoGuidTest(t, ev, fnSt, ddSt) ==
    LET getDev == <<Op("WdfIoTargetWdmGetTargetDeviceObject", t.h, "")>>
        getProv == <<Op("IoWMIDeviceObjectToProviderId", t.h, "")>>
    IN IF t.prov = NoDevObj
       THEN [next |-> Continue, steps |-> getDev]
       ELSE IF t.prov # ev.ProviderId
       THEN [next |-> Continue, steps |-> getDev \o getProv]
       ELSE LET b == ArrivalBranch(t.h, fnSt, ddSt)
            IN [next |-> b.next, steps |-> getDev \o getProv \o b.steps]

\* MatchTarget with the else of line 230 bound to the provider test of lines
\* 205-206: "Unknown event" is logged for a target of another provider.
MatchTargetElseOnProviderTest(t, ev, fnSt, ddSt) ==
    LET getDev == <<Op("WdfIoTargetWdmGetTargetDeviceObject", t.h, "")>>
        getProv == <<Op("IoWMIDeviceObjectToProviderId", t.h, "")>>
        cmpGuid == <<Op("IsEqualGUID", t.h, "")>>
        unknown == UnknownBranch(t.h)
    IN IF t.prov = NoDevObj
       THEN [next |-> unknown.next, steps |-> getDev \o unknown.steps]
       ELSE IF t.prov # ev.ProviderId
       THEN [next |-> unknown.next, steps |-> getDev \o getProv \o unknown.steps]
       ELSE IF ev.Guid = TOASTER_NOTIFY_DEVICE_ARRIVAL_EVENT
       THEN LET b == ArrivalBranch(t.h, fnSt, ddSt)
            IN [next |-> b.next, steps |-> getDev \o getProv \o cmpGuid \o b.steps]
       ELSE [next |-> Continue, steps |-> getDev \o getProv \o cmpGuid]

\* Lines 205-233: the provider and event-class tests on a started target.
MatchTarget(t, ev, fnSt, ddSt) ==
    LET getDev == <<Op("WdfIoTargetWdmGetTargetDeviceObject", t.h, "")>>
        getProv == <<Op("IoWMIDeviceObjectToProviderId", t.h, "")>>
        cmpGuid == <<Op("IsEqualGUID", t.h, "")>>
    IN IF t.prov = NoDevObj
       THEN [next |-> Continue, steps |-> getDev]
       ELSE IF t.prov # ev.ProviderId
       THEN [next |-> Continue, steps |-> getDev \o getProv]
       ELSE LET b == IF ev.Guid = TOASTER_NOTIFY_DEVICE_ARRIVAL_EVENT
                     THEN ArrivalBranch(t.h, fnSt, ddSt)
                     ELSE UnknownBranch(t.h)
            IN [next |-> b.next, steps |-> getDev \o getProv \o cmpGuid \o b.steps]

\* LoopBody fetching the device object (line 203) before the state test.
LoopBodyLookupFirst(col, idx, ev, fnSt, ddSt) ==
    LET t == col[idx + 1]
        m == MatchTarget(t, ev, fnSt, ddSt)
        head == <<Op("WdfCollectionGetItem", idx, ""), m.steps[1],
                  Op("WdfIoTargetGetState", t.h, t.state)>>
    IN IF t.state # WdfIoTargetStarted
       THEN [next |-> Continue,
             steps |-> head \o <<Op("KdPrint", t.h, "not in an opened state")>>]
       ELSE [next |-> m.next, steps |-> head \o Tail(m.steps)]

\* LoopBody without the state test of lines 197-201.
LoopBodyNoStateCheck(col, idx, ev, fnSt, ddSt) ==
    LET t == col[idx + 1]
        head == <<Op("WdfCollectionGetItem", idx, "")>>
        m == MatchTarget(t, ev, fnSt, ddSt)
    IN [next |-> m.next, steps |-> head \o m.steps]

\* Lines 190-233: the body of the loop for the item at index idx (from 0).
LoopBody(col, idx, ev, fnSt, ddSt) ==
    LET t == col[idx + 1]
        head == <<Op("WdfCollectionGetItem", idx, ""),
                  Op("WdfIoTargetGetState", t.h, t.state)>>
    IN IF t.state # WdfIoTargetStarted
       THEN [next |-> Continue,
             steps |-> head \o <<Op("KdPrint", t.h, "not in an opened state")>>]
       ELSE LET m == MatchTarget(t, ev, fnSt, ddSt)
            IN [next |-> m.next, steps |-> head \o m.steps]

\* WMI runs the callback installed by IoWMISetNotificationCallback while the
\* data block it was installed on is open.
CallbackInstalled == \E c \in callbackOn : IsOpen(c)

\* Entry to WmiNotificationCallback (lines 173-182): the locals.
Enter(p) ==
    /\ ~assertFailed
    /\ CallbackInstalled
    /\ pc[p] \in {"idle", "done"}
    /\ \E ev \in Wnodes : wnode' = [wnode EXCEPT ![p] = ev]
    /\ pc' = [pc EXCEPT ![p] = "acquire"]
    /\ i' = [i EXCEPT ![p] = 0]
    /\ trace' = [trace EXCEPT ![p] = <<>>]
    /\ UNCHANGED <<DBG, regVars, colVars, lockVars>>

\* WdfWaitLockAcquire returning at once, whether or not the lock is free.
WdfWaitLockAcquireNoWait(p) ==
    /\ pc[p] = "acquire"
    /\ lockOwner' = p
    /\ pc' = [pc EXCEPT ![p] = "loop"]
    /\ trace' = [trace EXCEPT ![p] = Append(@, Op("WdfWaitLockAcquire", -1, ""))]
    /\ UNCHANGED <<DBG, regVars, colVars, badRelease, i, wnode>>

\* Line 186: WdfWaitLockAcquire with no timeout waits until the lock is free.
WdfWaitLockAcquire(p) ==
    /\ pc[p] = "acquire"
    /\ lockOwner = NULL
    /\ lockOwner' = p
    /\ pc' = [pc EXCEPT ![p] = "loop"]
    /\ trace' = [trace EXCEPT ![p] = Append(@, Op("WdfWaitLockAcquire", -1, ""))]
    /\ UNCHANGED <<DBG, regVars, colVars, badRelease, i, wnode>>

\* AfterBody with the break taken as a return from the callback.
AfterBodyReturn(next) == IF next = Break THEN "done" ELSE "loop"

\* Where the scan goes after an iteration: the next index, or out of the loop.
AfterBody(next) == IF next = Break THEN "release" ELSE "loop"

\* Iterate taking a target that is not started out of the collection.
IterateRemovingClosed(p) ==
    /\ pc[p] = "loop"
    /\ LET count == Len(TargetDeviceCollection)
           test == <<Op("WdfCollectionGetCount", -1, "")>>
       IN IF i[p] < count
          THEN \E fnSt \in QueryStatuses, ddSt \in QueryStatuses :
               LET b == LoopBody(TargetDeviceCollection, i[p], wnode[p], fnSt, ddSt)
                   closed == TargetDeviceCollection[i[p] + 1].state # WdfIoTargetStarted
               IN
               /\ trace' = [trace EXCEPT ![p] = @ \o test \o b.steps]
               /\ pc' = [pc EXCEPT ![p] = AfterBody(b.next)]
               /\ i' = [i EXCEPT ![p] = IF b.next = Break \/ closed THEN @ ELSE @ + 1]
               /\ TargetDeviceCollection' =
                      IF closed
                      THEN SubSeq(TargetDeviceCollection, 1, i[p]) \o
                           SubSeq(TargetDeviceCollection, i[p] + 2, count)
                      ELSE TargetDeviceCollection
               /\ writer' = writer
          ELSE /\ trace' = [trace EXCEPT ![p] = @ \o test]
               /\ pc' = [pc EXCEPT ![p] = "release"]
               /\ UNCHANGED <<i, colVars>>
    /\ UNCHANGED <<DBG, regVars, lockVars, wnode>>

\* Line 188 and one pass through the loop body.
Iterate(p) ==
    /\ pc[p] = "loop"
    /\ LET count == Len(TargetDeviceCollection)
           test == <<Op("WdfCollectionGetCount", -1, "")>>
       IN IF i[p] < count
          THEN \E fnSt \in QueryStatuses, ddSt \in QueryStatuses :
               LET b == LoopBody(TargetDeviceCollection, i[p], wnode[p], fnSt, ddSt) IN
               /\ trace' = [trace EXCEPT ![p] = @ \o test \o b.steps]
               /\ pc' = [pc EXCEPT ![p] = AfterBody(b.next)]
               /\ i' = [i EXCEPT ![p] = IF b.next = Break THEN @ ELSE @ + 1]
          ELSE /\ trace' = [trace EXCEPT ![p] = @ \o test]
               /\ pc' = [pc EXCEPT ![p] = "release"]
               /\ UNCHANGED i
    /\ UNCHANGED <<DBG, regVars, colVars, lockVars, wnode>>

\* Line 237: WdfWaitLockRelease, then the callback returns.
WdfWaitLockRelease(p) ==
    /\ pc[p] = "release"
    /\ lockOwner' = IF lockOwner = p THEN NULL ELSE lockOwner
    /\ badRelease' = (badRelease \/ lockOwner # p)
    /\ pc' = [pc EXCEPT ![p] = "done"]
    /\ trace' = [trace EXCEPT ![p] = Append(@, Op("WdfWaitLockRelease", -1, ""))]
    /\ UNCHANGED <<DBG, regVars, colVars, i, wnode>>

WmiNotificationCallback(p) ==
    \/ Enter(p)
    \/ WdfWaitLockAcquire(p)
    \/ Iterate(p)
    \/ WdfWaitLockRelease(p)

\* ------------------------------------------------------- specifications
\* Collections of at most MaxTargets targets; the handle of a target is its
\* position when the collection was built.
RECURSIVE Collections(_)
Collections(n) ==
    IF n = 0 THEN {<<>>}
    ELSE LET shorter == Collections(n - 1) IN
         shorter \cup
         {Append(c, t) : c \in {s \in shorter : Len(s) = n - 1}, t \in Targets({n})}

InitCommon ==
    /\ assertFailed = FALSE
    /\ misused = FALSE
    /\ entrySlot = NULL
    /\ lockOwner = NULL
    /\ badRelease = FALSE
    /\ writer = [w \in Writers |-> "idle"]
    /\ pc = [p \in Dispatchers |-> "idle"]
    /\ i = [p \in Dispatchers |-> 0]
    /\ wnode = [p \in Dispatchers |-> NoWnode]
    /\ trace = [p \in Dispatchers |-> <<>>]

\* The device extension as created: no notification object.
InitUnregistered ==
    /\ WMIDeviceArrivalNotificationObject = NULL
    /\ nextObject = 0
    /\ derefs = [c \in Channels |-> 0]
    /\ callbackOn = {}
    /\ lastCall = "none"
    /\ regStatus = "none"
    /\ regTrace = <<>>

\* The registrar alone, on a device with no targets yet.
InitReg ==
    /\ DBG \in BOOLEAN
    /\ InitCommon
    /\ InitUnregistered
    /\ TargetDeviceCollection = <<>>

NextReg ==
    \/ RegisterForWMINotification
    \/ UnregisterForWMINotification

SpecReg == InitReg /\ [][NextReg]_vars

\* The device extension after a successful RegisterForWMINotification.
InitRegistered ==
    LET r == RegisterBody(NULL, 0, STATUS_SUCCESS, STATUS_SUCCESS) IN
    /\ WMIDeviceArrivalNotificationObject = r.slot
    /\ nextObject = r.opened
    /\ derefs = [c \in Channels |-> 0]
    /\ callbackOn = r.installed
    /\ lastCall = "register"
    /\ regStatus = r.status
    /\ regTrace = r.steps

\* The callback alone, WMI delivering one event at a time to a registered
\* device whose collection does not change.
InitCallback ==
    /\ DBG = FALSE
    /\ InitCommon
    /\ InitRegistered
    /\ TargetDeviceCollection \in Collections(MaxTargets)

NextCallback == WmiNotificationCallback(1)

SpecCallback == InitCallback /\ [][NextCallback]_vars

\* RegisterForWMINotification called as its precondition requires.
RegisterWhenEmpty ==
    /\ WMIDeviceArrivalNotificationObject = NULL
    /\ RegisterForWMINotification

\* The registrar beside the callback, with register called on an empty slot.
Init ==
    /\ DBG = FALSE
    /\ InitCommon
    /\ InitUnregistered
    /\ TargetDeviceCollection \in Collections(MaxShared)

Next ==
    \/ RegisterWhenEmpty
    \/ UnregisterForWMINotification
    \/ WmiNotificationCallback(1)

Spec == Init /\ [][Next]_vars

\* WdfWaitLockReleaseAndReturn returning with the lock still held.
ReturnWithoutRelease(p) ==
    /\ pc[p] = "release"
    /\ pc' = [pc EXCEPT ![p] = "idle"]
    /\ i' = [i EXCEPT ![p] = 0]
    /\ wnode' = [wnode EXCEPT ![p] = NoWnode]
    /\ trace' = [trace EXCEPT ![p] = <<>>]
    /\ UNCHANGED <<DBG, regVars, colVars, lockVars>>

\* Lines 237-238 in one step: WdfWaitLockRelease and the return, after which
\* the locals of the invocation are gone.
WdfWaitLockReleaseAndReturn(p) ==
    /\ pc[p] = "release"
    /\ lockOwner' = IF lockOwner = p THEN NULL ELSE lockOwner
    /\ badRelease' = (badRelease \/ lockOwner # p)
    /\ pc' = [pc EXCEPT ![p] = "idle"]
    /\ i' = [i EXCEPT ![p] = 0]
    /\ wnode' = [wnode EXCEPT ![p] = NoWnode]
    /\ trace' = [trace EXCEPT ![p] = <<>>]
    /\ UNCHANGED <<DBG, regVars, colVars>>

\* One invocation of the callback on thread p, beside other threads.
Dispatch(p) ==
    \/ Enter(p)
    \/ WdfWaitLockAcquire(p)
    \/ Iterate(p)
    \/ WdfWaitLockReleaseAndReturn(p)

\* ------------------------------------------------------ collection writers
\* The code that adds, removes and changes I/O targets; each writer takes
\* TargetDeviceCollectionLock, writes, and releases it.
WriterAcquire(w) ==
    /\ writer[w] = "idle"
    /\ lockOwner = NULL
    /\ lockOwner' = w
    /\ writer' = [writer EXCEPT ![w] = "holding"]
    /\ UNCHANGED <<DBG, regVars, TargetDeviceCollection, badRelease, cbVars>>

\* A handle no target of the collection has.
FreeHandle(col) ==
    CHOOSE h \in 1 .. (Len(col) + 1) : \A k \in 1 .. Len(col) : col[k].h # h

AddTarget(w) ==
    /\ writer[w] = "holding"
    /\ Len(TargetDeviceCollection) < MaxShared
    /\ \E t \in Targets({FreeHandle(TargetDeviceCollection)}) :
           TargetDeviceCollection' = Append(TargetDeviceCollection, t)
    /\ UNCHANGED <<DBG, regVars, writer, lockVars, cbVars>>

RemoveTarget(w) ==
    /\ writer[w] = "holding"
    /\ \E k \in 1 .. Len(TargetDeviceCollection) :
           TargetDeviceCollection' =
               SubSeq(TargetDeviceCollection, 1, k - 1) \o
               SubSeq(TargetDeviceCollection, k + 1, Len(TargetDeviceCollection))
    /\ UNCHANGED <<DBG, regVars, writer, lockVars, cbVars>>

SetTargetState(w) ==
    /\ writer[w] = "holding"
    /\ \E k \in 1 .. Len(TargetDeviceCollection) :
       \E st \in TargetStates \ {TargetDeviceCollection[k].state} :
           TargetDeviceCollection' =
               [TargetDeviceCollection EXCEPT ![k].state = st]
    /\ UNCHANGED <<DBG, regVars, writer, lockVars, cbVars>>

WriterRelease(w) ==
    /\ writer[w] = "holding"
    /\ lockOwner' = IF lockOwner = w THEN NULL ELSE lockOwner
    /\ writer' = [writer EXCEPT ![w] = "idle"]
    /\ UNCHANGED <<DBG, regVars, TargetDeviceCollection, badRelease, cbVars>>

Write(w) ==
    \/ WriterAcquire(w)
    \/ AddTarget(w)
    \/ RemoveTarget(w)
    \/ SetTargetState(w)
    \/ WriterRelease(w)

\* The callback on every thread beside the writers, on a registered device.
InitConc ==
    /\ DBG = FALSE
    /\ InitCommon
    /\ InitRegistered
    /\ TargetDeviceCollection \in Collections(MaxShared)

NextConc ==
    \/ \E p \in Dispatchers : Dispatch(p)
    \/ \E w \in Writers : Write(w)

SpecConc == InitConc /\ [][NextConc]_vars

\* A fair lock, writers that release it, and a callback that keeps running.
Fairness ==
    /\ \A p \in Dispatchers :
          /\ SF_vars(WdfWaitLockAcquire(p))
          /\ WF_vars(Iterate(p))
          /\ WF_vars(WdfWaitLockReleaseAndReturn(p))
    /\ \A w \in Writers : WF_vars(WriterRelease(w))

SpecLive == InitConc /\ [][NextConc]_vars /\ Fairness

\* ------------------------------------------------------------ trace views
Sel(tr, name) == SelectSeq(tr, LAMBDA e : e.op = name)
Count(tr, name) == Len(Sel(tr, name))

\* Operations that take an I/O target (field n is its handle).
CollectionOps ==
    {"WdfWaitLockAcquire", "WdfWaitLockRelease", "WdfCollectionGetCount",
     "WdfCollectionGetItem"}
IsTargetOp(e) == e.op \notin CollectionOps

ArrivalLog == "KdPrint fired a device arrival event"
IsLog(e, msg) == e.op = "KdPrint" /\ e.s = msg
Logs(tr, msg) == SelectSeq(tr, LAMBDA e : IsLog(e, msg))

\* Indexes (from 1) of the targets an event matches: started, with a device
\* object, and of the event's provider.
Matching(col, ev) ==
    {k \in 1 .. Len(col) : /\ col[k].state = WdfIoTargetStarted
                           /\ col[k].prov # NoDevObj
                           /\ col[k].prov = ev.ProviderId}
Min(S) == CHOOSE k \in S : \A m \in S : k <= m

\* The items the scan fetched are those at indexes 0 .. n - 1, in that order.
ScannedUpTo(tr, n) ==
    LET items == Sel(tr, "WdfCollectionGetItem") IN
    /\ Len(items) = n
    /\ \A j \in 1 .. n : items[j].n = j - 1

Returned(p) == pc[p] = "done"
ResolverStatus(tr) == Sel(tr, "return")

\* ----------------------------------------------------------------- claims
\* C1: every invocation of WmiNotificationCallback acquires the collection
\* lock exactly once, as its first step, and releases it exactly once, as its
\* last step before returning, whichever way the scan ended; the lock is never
\* held by an invocation that has returned or not yet acquired it, and never
\* released by an invocation that does not hold it.
C1_LockPairedPerInvocation ==
    /\ ~badRelease
    /\ \A p \in Dispatchers :
        /\ (lockOwner = p) <=> (pc[p] \in {"loop", "release"})
        /\ pc[p] \in {"loop", "release"} =>
              /\ Count(trace[p], "WdfWaitLockAcquire") = 1
              /\ Count(trace[p], "WdfWaitLockRelease") = 0
              /\ trace[p][1].op = "WdfWaitLockAcquire"
        /\ Returned(p) =>
              /\ Count(trace[p], "WdfWaitLockAcquire") = 1
              /\ Count(trace[p], "WdfWaitLockRelease") = 1
              /\ trace[p][1].op = "WdfWaitLockAcquire"
              /\ trace[p][Len(trace[p])].op = "WdfWaitLockRelease"

\* An invocation returned after a failed resolution cut the scan short.
C1_Witness ==
    \E p \in Dispatchers :
        /\ Returned(p)
        /\ lockOwner = NULL
        /\ Len(Logs(trace[p], "GetDeviceFriendlyName returned")) = 1
        /\ Count(trace[p], "WdfCollectionGetItem") < Len(TargetDeviceCollection)

\* C2: for an arrival event the scan visits the targets by increasing index and
\* resolves the name of the lowest-indexed matching target; nothing is read
\* from any target at a higher index, and the name logged is that target's.
C2_FirstMatchWins ==
    \A p \in Dispatchers :
        LET M == Matching(TargetDeviceCollection, wnode[p])
            tr == trace[p]
        IN (/\ Returned(p)
            /\ wnode[p].Guid = TOASTER_NOTIFY_DEVICE_ARRIVAL_EVENT
            /\ M # {}) =>
           LET k0 == Min(M)
               first == TargetDeviceCollection[k0].h
           IN /\ ScannedUpTo(tr, k0)
              /\ Sel(tr, "GetTargetFriendlyName") = <<Op("GetTargetFriendlyName", first, "")>>
              /\ \A j \in 1 .. Len(tr) :
                    IsTargetOp(tr[j]) =>
                        \E k \in 1 .. k0 : tr[j].n = TargetDeviceCollection[k].h
              /\ \A j \in 1 .. Len(tr) : tr[j].op = ArrivalLog => tr[j].n = first
              /\ NT_SUCCESS(ResolverStatus(tr)[1].s) => Count(tr, ArrivalLog) = 1

\* An arrival event was dispatched over a collection in which two targets
\* match; the name of the first was logged and the second was never fetched.
C2_Witness ==
    \E p \in Dispatchers :
        LET M == Matching(TargetDeviceCollection, wnode[p]) IN
        /\ Returned(p)
        /\ wnode[p].Guid = TOASTER_NOTIFY_DEVICE_ARRIVAL_EVENT
        /\ Cardinality(M) >= 2
        /\ Count(trace[p], ArrivalLog) = 1
        /\ Count(trace[p], "WdfCollectionGetItem") = Min(M)

\* The data blocks that are open.
OpenBlocks == {c \in Channels : IsOpen(c)}
RegistrarState == <<WMIDeviceArrivalNotificationObject, nextObject, derefs, callbackOn>>

\* C3: a register entered with the slot empty that fails at IoWMIOpenBlock opens
\* nothing, one that fails at IoWMISetNotificationCallback releases the block it
\* opened exactly once; either way the slot is left empty and the status
\* returned is that of the failing call. It returns success only when both
\* calls succeeded, and then the slot holds the new open block.
C3_RegisterStep ==
    LET slot == WMIDeviceArrivalNotificationObject
        new == nextObject + 1
        open == regTrace'[1]
        cb == regTrace'[2]
    IN (lastCall' = "register" /\ slot = NULL) =>
        /\ open.op = "IoWMIOpenBlock"
        /\ IF ~NT_SUCCESS(open.s)
           THEN /\ regStatus' = open.s
                /\ WMIDeviceArrivalNotificationObject' = NULL
                /\ UNCHANGED <<nextObject, derefs, callbackOn>>
           ELSE /\ cb.op = "IoWMISetNotificationCallback"
                /\ nextObject' = new
                /\ IF ~NT_SUCCESS(cb.s)
                   THEN /\ regStatus' = cb.s
                        /\ WMIDeviceArrivalNotificationObject' = NULL
                        /\ derefs' = [derefs EXCEPT ![new] = 1]
                        /\ UNCHANGED callbackOn
                   ELSE /\ NT_SUCCESS(regStatus')
                        /\ WMIDeviceArrivalNotificationObject' = new
                        /\ derefs' = derefs
                        /\ callbackOn' = callbackOn \cup {new}
        /\ OpenBlocks' \ OpenBlocks =
              IF NT_SUCCESS(regStatus') THEN {WMIDeviceArrivalNotificationObject'} ELSE {}
C3_RegisterFailureLeavesNothing == [][C3_RegisterStep]_vars

\* A register entered with the slot empty opened a block, failed to install
\* the callback and released the block.
C3_Witness ==
    /\ lastCall = "register"
    /\ entrySlot = NULL
    /\ ~NT_SUCCESS(regStatus)
    /\ WMIDeviceArrivalNotificationObject = NULL
    /\ Count(regTrace, "ObDereferenceObject") = 1
    /\ derefs[nextObject] = 1

\* C4: unregister on an empty slot changes nothing and releases nothing; on an
\* occupied slot it releases the block held, once, and empties the slot; a
\* second unregister right after the first changes nothing; no block is ever
\* released twice, and unregister raises no error.
C4_UnregisterStep ==
    LET slot == WMIDeviceArrivalNotificationObject IN
    /\ lastCall' = "unregister" =>
        /\ WMIDeviceArrivalNotificationObject' = NULL
        /\ UNCHANGED <<nextObject, callbackOn, assertFailed>>
        /\ IF slot = NULL
           THEN derefs' = derefs /\ regTrace' = <<>>
           ELSE /\ derefs[slot] = 0
                /\ derefs' = [derefs EXCEPT ![slot] = 1]
                /\ regTrace' = <<Op("ObDereferenceObject", slot, "")>>
    /\ (lastCall = "unregister" /\ lastCall' = "unregister") => UNCHANGED RegistrarState
    /\ \A c \in Channels : derefs'[c] <= 1
C4_UnregisterIdempotent == [][C4_UnregisterStep]_vars

\* An unregister found the slot empty after an earlier block had been opened
\* and released.
C4_Witness ==
    /\ lastCall = "unregister"
    /\ entrySlot = NULL
    /\ regTrace = <<>>
    /\ nextObject >= 1
    /\ \A c \in 1 .. nextObject : derefs[c] = 1

\* C6: as long as register is only entered with the slot empty, at most one
\* block is open, the slot is non-empty exactly when a block is open (the one
\* it holds, with the callback installed), no block is released twice, and
\* after an unregister no block is open.
C6_OneLiveSubscription ==
    ~misused =>
        /\ Cardinality(OpenBlocks) <= 1
        /\ OpenBlocks = (IF WMIDeviceArrivalNotificationObject = NULL
                         THEN {} ELSE {WMIDeviceArrivalNotificationObject})
        /\ OpenBlocks \subseteq callbackOn
        /\ \A c \in Channels : derefs[c] <= 1 /\ (c > nextObject => derefs[c] = 0)
        /\ lastCall = "unregister" => \A c \in 1 .. nextObject : derefs[c] = 1

\* Two blocks were opened by successive registers and each was released, the
\* second by unregister.
C6_Witness ==
    /\ ~misused
    /\ nextObject = 2
    /\ lastCall = "unregister"
    /\ entrySlot = 2
    /\ derefs[1] = 1 /\ derefs[2] = 1

\* C7 as claimed: every register entered with the slot occupied fires the
\* assertion and does not go on to IoWMIOpenBlock.
C7_DoubleRegisterAlwaysDetected ==
    (lastCall = "register" /\ entrySlot # NULL) =>
        /\ assertFailed
        /\ Count(regTrace, "IoWMIOpenBlock") = 0

\* C7 amended: on a checked build a register entered with the slot occupied
\* fires the assertion and touches neither the slot nor any data block; on a
\* free build the ASSERT is compiled out, nothing detects the call and it goes
\* on to IoWMIOpenBlock.
C7_DoubleRegisterStep ==
    (lastCall' = "register" /\ WMIDeviceArrivalNotificationObject # NULL) =>
        IF DBG
        THEN /\ assertFailed'
             /\ UNCHANGED RegistrarState
             /\ Count(regTrace', "IoWMIOpenBlock") = 0
        ELSE /\ ~assertFailed'
             /\ regTrace'[1].op = "IoWMIOpenBlock"
             /\ WMIDeviceArrivalNotificationObject' \in {NULL, nextObject + 1}
C7_DoubleRegisterDetectedOnCheckedBuild == [][C7_DoubleRegisterStep]_vars

\* On a checked build a second register was stopped by the assertion while the
\* first subscription was still in the slot.
C7_Witness ==
    /\ DBG
    /\ assertFailed
    /\ lastCall = "register"
    /\ entrySlot # NULL
    /\ WMIDeviceArrivalNotificationObject = entrySlot
    /\ IsOpen(entrySlot)

\* The steps of trace tr from the call of GetTargetFriendlyName at position j
\* to its return.
ResolverCall(tr, j) ==
    LET r == Min({m \in j .. Len(tr) : tr[m].op = "return"}) IN SubSeq(tr, j, r)

\* C5: GetTargetFriendlyName queries the friendly name first; a success is
\* returned with its buffer and nothing else is queried; a failure other than
\* insufficient resources makes it query the device description once and
\* return that query's outcome; a failure with insufficient resources is
\* returned with no second query.
C5_FallbackPolicy ==
    \A p \in Dispatchers : \A j \in 1 .. Len(trace[p]) :
        trace[p][j].op = "GetTargetFriendlyName" =>
        LET call == ResolverCall(trace[p], j)
            Target == trace[p][j].n
            queries == Sel(call, "WdfIoTargetAllocAndQueryTargetProperty")
            results == Sel(call, "QueryReturned")
            out == Sel(call, "*TargetName")
            ret == call[Len(call)]
            Buffer(property) == <<Op("*TargetName", Target, property)>>
        IN /\ Len(queries) >= 1
           /\ Len(results) = Len(queries)
           /\ queries[1] = Op("WdfIoTargetAllocAndQueryTargetProperty", Target,
                              DevicePropertyFriendlyName)
           /\ IF NT_SUCCESS(results[1].s)
              THEN /\ Len(queries) = 1
                   /\ ret.s = results[1].s
                   /\ out = Buffer(DevicePropertyFriendlyName)
              ELSE IF results[1].s = STATUS_INSUFFICIENT_RESOURCES
              THEN /\ Len(queries) = 1
                   /\ ret.s = STATUS_INSUFFICIENT_RESOURCES
                   /\ out = <<>>
              ELSE /\ Len(queries) = 2
                   /\ queries[2] = Op("WdfIoTargetAllocAndQueryTargetProperty", Target,
                                      DevicePropertyDeviceDescription)
                   /\ ret.s = results[2].s
                   /\ out = IF NT_SUCCESS(results[2].s)
                            THEN Buffer(DevicePropertyDeviceDescription) ELSE <<>>

\* The friendly-name query failed with insufficient resources and the name
\* resolution returned that status after this one query.
C5_Witness ==
    \E p \in Dispatchers :
        /\ Count(trace[p], "WdfIoTargetAllocAndQueryTargetProperty") = 1
        /\ Sel(trace[p], "QueryReturned")[1].s = STATUS_INSUFFICIENT_RESOURCES
        /\ Sel(trace[p], "return")[1].s = STATUS_INSUFFICIENT_RESOURCES

\* The handles of the targets an event matches, in collection order.
MatchingHandles(col, ev) ==
    LET m == SelectSeq(col, LAMBDA t : /\ t.state = WdfIoTargetStarted
                                       /\ t.prov # NoDevObj
                                       /\ t.prov = ev.ProviderId)
    IN [j \in 1 .. Len(m) |-> m[j].h]
HandlesOf(ops) == [j \in 1 .. Len(ops) |-> ops[j].n]

\* C8: for an event of another class the scan runs over every target of the
\* collection and logs "Unknown event" once for each matching target, in
\* collection order; it never ends early.
C8_UnknownEventContinues ==
    \A p \in Dispatchers :
        (Returned(p) /\ wnode[p].Guid # TOASTER_NOTIFY_DEVICE_ARRIVAL_EVENT) =>
            /\ ScannedUpTo(trace[p], Len(TargetDeviceCollection))
            /\ HandlesOf(Logs(trace[p], "Unknown event")) =
                  MatchingHandles(TargetDeviceCollection, wnode[p])

\* An event of another class matched the first target and a later one: both
\* were logged as unknown events.
C8_Witness ==
    \E p \in Dispatchers :
        /\ Returned(p)
        /\ wnode[p].Guid # TOASTER_NOTIFY_DEVICE_ARRIVAL_EVENT
        /\ 1 \in Matching(TargetDeviceCollection, wnode[p])
        /\ Len(Logs(trace[p], "Unknown event")) >= 2

\* C9: when no target matches the event, the scan fetches every target, never
\* calls GetTargetFriendlyName, logs neither an arrival nor an unknown event,
\* and returns with the lock released.
C9_NoMatchScansAll ==
    \A p \in Dispatchers :
        (Returned(p) /\ Matching(TargetDeviceCollection, wnode[p]) = {}) =>
            /\ ScannedUpTo(trace[p], Len(TargetDeviceCollection))
            /\ Count(trace[p], "GetTargetFriendlyName") = 0
            /\ Count(trace[p], "WdfIoTargetAllocAndQueryTargetProperty") = 0
            /\ Count(trace[p], ArrivalLog) = 0
            /\ Logs(trace[p], "Unknown event") = <<>>
            /\ trace[p][Len(trace[p])].op = "WdfWaitLockRelease"
            /\ lockOwner # p

\* Nothing matched in a collection holding a target of the event's provider
\* that is not started and a started target with no device object.
C9_Witness ==
    \E p \in Dispatchers :
        LET col == TargetDeviceCollection IN
        /\ Returned(p)
        /\ Matching(col, wnode[p]) = {}
        /\ \E k \in 1 .. Len(col) :
              col[k].state # WdfIoTargetStarted /\ col[k].prov = wnode[p].ProviderId
        /\ \E k \in 1 .. Len(col) :
              col[k].state = WdfIoTargetStarted /\ col[k].prov = NoDevObj
        /\ Count(trace[p], "WdfCollectionGetItem") = Len(col)

\* C10: a step of the callback leaves the collection, its targets and the
\* registrar's state (the slot and the data blocks) as they were; a step of
\* register or unregister leaves the collection and its lock as they were.
C10_FrameStep ==
    IF cbVars' # cbVars
    THEN UNCHANGED <<TargetDeviceCollection, RegistrarState>>
    ELSE UNCHANGED <<TargetDeviceCollection, lockOwner, badRelease>>
C10_LoggingOnly == [][C10_FrameStep]_vars

\* Unregister ran while the callback held the lock in the middle of a scan of
\* a collection with a target that is not started.
C10_Witness ==
    \E p \in Dispatchers :
        /\ lockOwner = p
        /\ Count(trace[p], "WdfCollectionGetItem") >= 1
        /\ TargetDeviceCollection[1].state # WdfIoTargetStarted
        /\ lastCall = "unregister"
        /\ entrySlot # NULL

\* The invocation of p called GetTargetFriendlyName and it returned a failure.
ResolutionFailed(p) ==
    /\ ResolverStatus(trace[p]) # <<>>
    /\ ~NT_SUCCESS(ResolverStatus(trace[p])[1].s)

\* C11: an invocation whose name resolution failed logged the failure once,
\* for the first matching target, fetched no target after it, called the
\* resolver once, logged no arrival and returned with the lock released; the
\* invocation entered after it starts from fresh locals with the collection,
\* the lock and the registrar's state as the failed one found them.
C11_FailedStep ==
    \A p \in Dispatchers :
        /\ (Returned(p) /\ ResolutionFailed(p))' =>
             LET tr == trace'[p]
                 k0 == Min(Matching(TargetDeviceCollection', wnode'[p]))
                 failures == Logs(tr, "GetDeviceFriendlyName returned")
             IN /\ wnode'[p].Guid = TOASTER_NOTIFY_DEVICE_ARRIVAL_EVENT
                /\ Len(failures) = 1
                /\ failures[1].n = TargetDeviceCollection'[k0].h
                /\ ScannedUpTo(tr, k0)
                /\ Count(tr, "GetTargetFriendlyName") = 1
                /\ Count(tr, ArrivalLog) = 0
                /\ tr[Len(tr)].op = "WdfWaitLockRelease"
                /\ lockOwner' = NULL
                /\ ~badRelease'
        /\ (Returned(p) /\ ResolutionFailed(p) /\ pc'[p] # pc[p]) =>
                /\ pc'[p] = "acquire"
                /\ i'[p] = 0
                /\ trace'[p] = <<>>
                /\ UNCHANGED <<TargetDeviceCollection, lockOwner, badRelease, regVars>>
C11_ResolutionFailureAbortsOneDispatch == [][C11_FailedStep]_vars

\* A failed resolution ended the scan with a second matching target left
\* unfetched.
C11_Witness ==
    \E p \in Dispatchers :
        /\ Returned(p)
        /\ ResolutionFailed(p)
        /\ Cardinality(Matching(TargetDeviceCollection, wnode[p])) >= 2
        /\ Count(trace[p], "WdfCollectionGetItem") < Len(TargetDeviceCollection)
        /\ lockOwner = NULL

\* A failing step at position j of tr is followed in tr by a KdPrint that
\* prints its status.
Reported(tr, j) ==
    \E m \in j + 1 .. Len(tr) - 1 :
        /\ tr[m].op = "KdPrint"
        /\ tr[m + 1].op = "%x"
        /\ tr[m + 1].s = tr[j].s
IsFailure(e, ops) == e.op \in ops /\ ~NT_SUCCESS(e.s)
RegistrarCalls == {"IoWMIOpenBlock", "IoWMISetNotificationCallback"}
RegistrarFailuresLogged ==
    \A j \in 1 .. Len(regTrace) :
        IsFailure(regTrace[j], RegistrarCalls) => Reported(regTrace, j)

\* C12 as claimed: every failing IoWMIOpenBlock, IoWMISetNotificationCallback
\* and property query, the friendly-name query that a successful fallback
\* follows included, is followed by a log entry that reports it.
C12_EveryFailureLogged ==
    /\ RegistrarFailuresLogged
    /\ \A p \in Dispatchers : \A j \in 1 .. Len(trace[p]) :
          IsFailure(trace[p][j], {"QueryReturned"}) => Reported(trace[p], j)

\* C12 amended: every failing IoWMIOpenBlock and IoWMISetNotificationCallback
\* is logged by register, and GetTargetFriendlyName logs exactly when it
\* returns a failure, printing the status it returns, which is that of the
\* last query it made; the callback then logs that status again. A failed
\* friendly-name query that a successful device-description query follows is
\* not logged.
C12_ReturnedFailuresLogged ==
    /\ RegistrarFailuresLogged
    /\ \A p \in Dispatchers : \A j \in 1 .. Len(trace[p]) :
          trace[p][j].op = "GetTargetFriendlyName" =>
          LET tr == trace[p]
              call == ResolverCall(tr, j)
              last == j + Len(call) - 1
              results == Sel(call, "QueryReturned")
              ret == call[Len(call)]
          IN /\ ret.s = results[Len(results)].s
             /\ IF NT_SUCCESS(ret.s)
                THEN /\ Sel(call, "KdPrint") = <<>>
                     /\ Sel(call, "%x") = <<>>
                     /\ Logs(tr, "GetDeviceFriendlyName returned") = <<>>
                ELSE /\ Logs(call, "WdfDeviceQueryProperty returned") # <<>>
                     /\ Sel(call, "%x") = <<Op("%x", ret.n, ret.s)>>
                     /\ tr[last + 1] = Op("KdPrint", ret.n, "GetDeviceFriendlyName returned")
                     /\ tr[last + 2] = Op("%x", ret.n, ret.s)

\* Both queries failed, with different statuses, and the status of the second
\* was printed.
C12_Witness ==
    \E p \in Dispatchers :
        LET results == Sel(trace[p], "QueryReturned") IN
        /\ Len(results) = 2
        /\ ~NT_SUCCESS(results[2].s)
        /\ results[1].s # results[2].s
        /\ Sel(trace[p], "%x")[1].s = results[2].s

\* The operations that look into a target beyond its state.
LookupOps ==
    {"WdfIoTargetWdmGetTargetDeviceObject", "IoWMIDeviceObjectToProviderId",
     "IsEqualGUID", "GetTargetFriendlyName", "WdfIoTargetAllocAndQueryTargetProperty"}
TargetOf(col, h) == CHOOSE t \in {col[k] : k \in 1 .. Len(col)} : t.h = h

\* C13: the first thing done with a fetched target is to read its state; a
\* target read as not started is only logged, and neither its device object
\* or provider id is looked up nor its name resolved; every such lookup is on
\* a started target and comes after the read of its state.
C13_OnlyStartedEligible ==
    \A p \in Dispatchers :
        LET tr == trace[p] IN
        \A j \in 1 .. Len(tr) :
            /\ tr[j].op = "WdfCollectionGetItem" =>
                  /\ j < Len(tr)
                  /\ tr[j + 1].op = "WdfIoTargetGetState"
                  /\ tr[j + 1].n = TargetDeviceCollection[tr[j].n + 1].h
                  /\ tr[j + 1].s = TargetDeviceCollection[tr[j].n + 1].state
            /\ (tr[j].op = "WdfIoTargetGetState" /\ tr[j].s # WdfIoTargetStarted) =>
                  /\ tr[j + 1] = Op("KdPrint", tr[j].n, "not in an opened state")
                  /\ \A m \in 1 .. Len(tr) :
                        tr[m].op \in LookupOps => tr[m].n # tr[j].n
            /\ tr[j].op \in LookupOps =>
                  /\ TargetOf(TargetDeviceCollection, tr[j].n).state = WdfIoTargetStarted
                  /\ \E m \in 1 .. j - 1 :
                        tr[m] = Op("WdfIoTargetGetState", tr[j].n, WdfIoTargetStarted)

\* A scan skipped a target that is not started and carries the event's
\* provider, and looked up a started one.
C13_Witness ==
    \E p \in Dispatchers :
        /\ Returned(p)
        /\ \E k \in 1 .. Len(TargetDeviceCollection) :
              /\ TargetDeviceCollection[k].state \in {"Created", "Stopped", "Removed"}
              /\ TargetDeviceCollection[k].prov = wnode[p].ProviderId
        /\ Count(trace[p], "WdfIoTargetWdmGetTargetDeviceObject") = 1
        /\ Len(Logs(trace[p], "not in an opened state")) = 1

\* The positions in tr of the steps with operation name.
Positions(tr, name) == {j \in 1 .. Len(tr) : tr[j].op = name}
SameBuffer(a, b) == a.n = b.n /\ a.s = b.s

\* C16: GetTargetFriendlyName hands out a buffer exactly when it returns
\* success; the callback deletes each buffer it was handed exactly once, after
\* reading and logging it and before releasing the lock, and touches no buffer
\* after deleting it; a returned invocation has no buffer left.
C16_NameBufferOwnership ==
    \A p \in Dispatchers :
        LET tr == trace[p]
            allocs == Positions(tr, "*TargetName")
            deletes == Positions(tr, "WdfObjectDelete")
            uses == Positions(tr, "WdfMemoryGetBuffer") \cup Positions(tr, ArrivalLog)
        IN /\ \A j \in Positions(tr, "GetTargetFriendlyName") :
                 LET call == ResolverCall(tr, j) IN
                 /\ NT_SUCCESS(call[Len(call)].s) <=> Count(call, "*TargetName") = 1
                 /\ ~NT_SUCCESS(call[Len(call)].s) <=> Count(call, "*TargetName") = 0
           /\ \A a \in allocs :
                 /\ Cardinality({d \in deletes : SameBuffer(tr[d], tr[a])}) = 1
                 /\ \E d \in deletes :
                       /\ SameBuffer(tr[d], tr[a])
                       /\ a < d
                       /\ \E u \in Positions(tr, ArrivalLog) :
                             SameBuffer(tr[u], tr[a]) /\ a < u /\ u < d
                       /\ \A r \in Positions(tr, "WdfWaitLockRelease") : d < r
                       /\ \A u \in uses : SameBuffer(tr[u], tr[a]) => a < u /\ u < d
           /\ \A d \in deletes : \E a \in allocs : SameBuffer(tr[a], tr[d])
           /\ \A u \in uses : \E a \in allocs : SameBuffer(tr[a], tr[u])
           /\ Cardinality(deletes) = Cardinality(allocs)

\* The buffer of a device description, obtained after the friendly-name query
\* failed, was logged and deleted before the invocation returned.
C16_Witness ==
    \E p \in Dispatchers :
        /\ Returned(p)
        /\ Count(trace[p], "WdfIoTargetAllocAndQueryTargetProperty") = 2
        /\ Count(trace[p], "WdfObjectDelete") = 1
        /\ Sel(trace[p], "WdfObjectDelete")[1].s = DevicePropertyDeviceDescription

\* The last register installed the callback on data block c.
InstalledByLastCall(c) ==
    \E j \in 1 .. Len(regTrace) :
        regTrace[j] = Op("IoWMISetNotificationCallback", c, STATUS_SUCCESS)

\* C17: after a register entered with the slot empty, the status is success
\* exactly when the slot is non-empty, and exactly when the callback was
\* installed by this call on the open block the slot holds; a failed register
\* leaves the slot empty, so register may be called again. As long as register
\* is only entered with the slot empty, the callback is installed on no open
\* block other than the one in the slot.
C17_SuccessSlotCallbackCoincide ==
    LET slot == WMIDeviceArrivalNotificationObject IN
    /\ (lastCall = "register" /\ entrySlot = NULL) =>
          /\ ~assertFailed
          /\ NT_SUCCESS(regStatus) <=> slot # NULL
          /\ slot # NULL <=>
                \E c \in Channels :
                    InstalledByLastCall(c) /\ c = slot /\ c \in callbackOn /\ IsOpen(c)
          /\ slot = NULL => \A c \in Channels : ~InstalledByLastCall(c)
    /\ ~misused => \A c \in callbackOn : IsOpen(c) => c = slot

\* A register succeeded on the slot left empty by a register that had failed
\* to install the callback.
C17_Witness ==
    /\ lastCall = "register"
    /\ entrySlot = NULL
    /\ ~misused
    /\ NT_SUCCESS(regStatus)
    /\ WMIDeviceArrivalNotificationObject = 2
    /\ derefs[1] = 1
    /\ 1 \notin callbackOn

\* C18: within one invocation of WmiNotificationCallback GetTargetFriendlyName
\* is called at most once and at most one arrival log is written, however many
\* targets of the collection have the event's provider id; an arrival log is
\* written only if the event's GUID is the arrival GUID and the resolution of
\* the first matching target succeeded.
C18_AtMostOneResolutionAndArrivalLog ==
    \A p \in Dispatchers :
        LET tr == trace[p]
            hits == Matching(TargetDeviceCollection, wnode[p])
        IN /\ Count(tr, "GetTargetFriendlyName") <= 1
           /\ Count(tr, ArrivalLog) <= 1
           /\ Count(tr, ArrivalLog) = 1 =>
                 /\ wnode[p].Guid = TOASTER_NOTIFY_DEVICE_ARRIVAL_EVENT
                 /\ hits # {}
                 /\ ResolverStatus(tr) =
                        <<Op("return", TargetDeviceCollection[Min(hits)].h,
                             STATUS_SUCCESS)>>

\* An invocation returned after one arrival log, from a collection in which
\* two targets have the event's provider id.
C18_Witness ==
    \E p \in Dispatchers :
        /\ Returned(p)
        /\ Cardinality(Matching(TargetDeviceCollection, wnode[p])) = 2
        /\ Count(trace[p], ArrivalLog) = 1
        /\ Count(trace[p], "GetTargetFriendlyName") = 1

\* The outcomes of the arrival branch in a trace: the resolver call, the
\* arrival log and the resolution-failure log.
ArrivalOutcomes(tr) ==
    Count(tr, "GetTargetFriendlyName") + Count(tr, ArrivalLog) +
    Len(Logs(tr, "GetDeviceFriendlyName returned"))

\* C19: the two outcomes of a provider match exclude each other within one
\* invocation: one that logs "Unknown event" for any target never calls
\* GetTargetFriendlyName and writes neither an arrival log nor a
\* resolution-failure log, and one that calls GetTargetFriendlyName never logs
\* "Unknown event"; "Unknown event" is logged only for an event that is not
\* an arrival, so going on with the scan never resolves a later target.
C19_UnknownAndArrivalExclusive ==
    \A p \in Dispatchers :
        LET tr == trace[p]
            unknown == Len(Logs(tr, "Unknown event"))
        IN /\ unknown > 0 => ArrivalOutcomes(tr) = 0
           /\ ArrivalOutcomes(tr) > 0 => unknown = 0
           /\ unknown > 0 => wnode[p].Guid # TOASTER_NOTIFY_DEVICE_ARRIVAL_EVENT
           /\ Count(tr, "GetTargetFriendlyName") > 0 =>
                 wnode[p].Guid = TOASTER_NOTIFY_DEVICE_ARRIVAL_EVENT

\* An invocation returned after logging "Unknown event" for two targets, the
\* scan having gone on after the first.
C19_Witness ==
    \E p \in Dispatchers :
        /\ Returned(p)
        /\ Len(Logs(trace[p], "Unknown event")) = 2
        /\ ScannedUpTo(trace[p], 2)

\* The threads that hold TargetDeviceCollectionLock by their own account.
LockHolders ==
    {p \in Dispatchers : pc[p] \in {"loop", "release"}} \cup
    {w \in Writers : writer[w] = "holding"}

\* The reads of the collection and of its targets in the scan.
ReadOps ==
    {"WdfCollectionGetCount", "WdfCollectionGetItem", "WdfIoTargetGetState",
     "WdfIoTargetWdmGetTargetDeviceObject", "IoWMIDeviceObjectToProviderId"}

\* The steps a transition adds to the record of invocation p.
NewSteps(p) ==
    IF Len(trace'[p]) > Len(trace[p])
    THEN SubSeq(trace'[p], Len(trace[p]) + 1, Len(trace'[p]))
    ELSE <<>>

MutualExclusion ==
    /\ ~badRelease
    /\ Cardinality(LockHolders) <= 1
    /\ LockHolders = {lockOwner} \ {NULL}

\* What the scan read of each item is what the collection holds now.
ReadsStillCurrent ==
    \A p \in Dispatchers : pc[p] \in {"loop", "release"} =>
        /\ i[p] <= Len(TargetDeviceCollection)
        /\ \A j \in 1 .. Len(trace[p]) - 1 :
              trace[p][j].op = "WdfCollectionGetItem" =>
                  /\ trace[p][j].n < Len(TargetDeviceCollection)
                  /\ trace[p][j + 1] =
                         LET t == TargetDeviceCollection[trace[p][j].n + 1]
                         IN Op("WdfIoTargetGetState", t.h, t.state)

ReadsUnderLock ==
    \A p \in Dispatchers :
        \A j \in 1 .. Len(NewSteps(p)) :
            NewSteps(p)[j].op \in ReadOps =>
                /\ lockOwner = p
                /\ LockHolders = {p}
                /\ NewSteps(p)[j].op = "WdfCollectionGetItem" =>
                       NewSteps(p)[j].n < Len(TargetDeviceCollection)

NoWriteDuringScan ==
    TargetDeviceCollection' # TargetDeviceCollection =>
        /\ \A p \in Dispatchers : pc[p] # "loop" /\ pc'[p] # "loop"
        /\ \E w \in Writers : LockHolders = {w}

\* C14: with the callback running on several threads beside the writers of
\* the collection, at most one of them holds TargetDeviceCollectionLock at any
\* time; every read the callback makes of the collection and of its targets
\* is made while that invocation holds the lock, so the collection does not
\* change during a scan; and WdfCollectionGetItem is never given an index at
\* or beyond the count of the collection.
C14_ReadsUnderExclusiveLock ==
    /\ [](MutualExclusion /\ ReadsStillCurrent)
    /\ [][ReadsUnderLock /\ NoWriteDuringScan]_vars

\* One invocation is in the middle of its scan, having read an item, while
\* another waits for the lock.
C14_Witness ==
    \E p, q \in Dispatchers :
        /\ pc[p] = "loop"
        /\ Count(trace[p], "WdfCollectionGetItem") >= 1
        /\ pc[q] = "acquire"
        /\ lockOwner = p

\* The scan of invocation p fetched each index at most once, in increasing
\* order from 0, and no more items than the collection holds.
BoundedScan(p) ==
    LET n == Count(trace[p], "WdfCollectionGetItem") IN
    /\ n <= Len(TargetDeviceCollection)
    /\ ScannedUpTo(trace[p], n)
    /\ Count(trace[p], "WdfCollectionGetCount") <= Len(TargetDeviceCollection) + 1

\* C15: every invocation of the callback completes: once it holds the lock it
\* reaches WdfWaitLockRelease and returns after fetching at most as many items
\* as the collection holds, each index at most once and in increasing order;
\* and with a fair lock and writers that release it, every invocation that
\* has started acquires the lock and returns.
C15_EveryDispatchCompletes ==
    /\ [](\A p \in Dispatchers : pc[p] \in {"loop", "release"} => BoundedScan(p))
    /\ \A p \in Dispatchers :
          /\ (pc[p] = "acquire") ~> (lockOwner = p)
          /\ (lockOwner = p) ~> (pc[p] = "idle" /\ lockOwner # p)

\* One invocation has scanned the whole collection and is about to release
\* the lock another is waiting for.
C15_Witness ==
    \E p, q \in Dispatchers :
        /\ pc[p] = "release"
        /\ Len(TargetDeviceCollection) >= 1
        /\ ScannedUpTo(trace[p], Len(TargetDeviceCollection))
        /\ pc[q] = "acquire"

====
